---- MODULE Spec2Model ----
(***************************************************************************)
(* Model of src/sbr.cpp: the parsing layer of a certainty-factor rule      *)
(* system.  Strings are TLA+ strings; positions are 0-based as in C++ and  *)
(* std::string::npos is the value npos.                                    *)
(***************************************************************************)
EXTENDS Integers, Sequences, FiniteSets, TLC

\* ------------------------------------------------------------------------
\* Bounds of the model (not program constants)
\* ------------------------------------------------------------------------

\* Largest number of tokens concatenated into an antecedent text (SpecAnt).
MaxTok == 5

\* Largest number of lines a file holds after its count line (SpecLoad).
MaxLines == 4

\* ------------------------------------------------------------------------
\* std::string primitives
\* ------------------------------------------------------------------------

\* std::string::npos: the "not found" position.
npos == -1

\* INT_MAX of the 32-bit int that std::stoi returns.
IntMax == 2147483647

\* DBL_MAX_10_EXP, the largest power of ten that is a finite double, and
\* the decimal exponent of DBL_TRUE_MIN = 2^-1074 = 4.94...e-324, the least
\* subnormal double.
DblMax10Exp == 308
DblTrueMin10Exp == -324

\* DBL_MAX_EXP, DBL_MIN_EXP and DBL_MANT_DIG: a normalised double lies in
\* [2^(DBL_MIN_EXP - 1), 2^DBL_MAX_EXP) and has DBL_MANT_DIG mantissa bits.
DblMaxExp == 1024
DblMinExp == -1021
DblMantDig == 53

\* Number of bits of a limb of the natural numbers of any size that the
\* conversions of std::stod compute with.
LimbBits == 15

Min(a, b) == IF a < b THEN a ELSE b

\* str.substr(pos, n): at most n characters from position pos.
substr(str, pos, n) == SubSeq(str, pos + 1, Min(pos + n, Len(str)))

\* str.substr(pos): the rest of the string from position pos.
substrFrom(str, pos) == SubSeq(str, pos + 1, Len(str))

\* The character at 0-based position p, as a one-character string.
Ch(str, p) == SubSeq(str, p + 1, p + 1)

\* std::tolower on one character (ASCII letters).
tolowerCh(c) ==
    CASE c = "A" -> "a" [] c = "B" -> "b" [] c = "C" -> "c" [] c = "D" -> "d"
      [] c = "E" -> "e" [] c = "F" -> "f" [] c = "G" -> "g" [] c = "H" -> "h"
      [] c = "I" -> "i" [] c = "J" -> "j" [] c = "K" -> "k" [] c = "L" -> "l"
      [] c = "M" -> "m" [] c = "N" -> "n" [] c = "O" -> "o" [] c = "P" -> "p"
      [] c = "Q" -> "q" [] c = "R" -> "r" [] c = "S" -> "s" [] c = "T" -> "t"
      [] c = "U" -> "u" [] c = "V" -> "v" [] c = "W" -> "w" [] c = "X" -> "x"
      [] c = "Y" -> "y" [] c = "Z" -> "z" [] OTHER -> c

\* toLower(s): std::transform of every character through std::tolower.
RECURSIVE toLower(_)
toLower(s) ==
    IF Len(s) = 0 THEN "" ELSE tolowerCh(Ch(s, 0)) \o toLower(substrFrom(s, 1))

\* The vertical tab '\v' (0x0B).  TLA+ has no escape for it: the string
\* literal holds the character itself.
VT == ""

\* Membership in trim's whitespace set " \t\n\r\f\v", which is also the set
\* std::isspace accepts in the "C" locale.
IsWhitespace(c) == c \in {" ", "\t", "\n", "\r", "\f", VT}

\* str.find_first_not_of(whitespace), searching from position p.
RECURSIVE find_first_not_of(_, _)
find_first_not_of(str, p) ==
    IF p >= Len(str) THEN npos
    ELSE IF ~IsWhitespace(Ch(str, p)) THEN p
    ELSE find_first_not_of(str, p + 1)

\* str.find_last_not_of(whitespace), searching backwards from position p.
RECURSIVE find_last_not_of(_, _)
find_last_not_of(str, p) ==
    IF p < 0 THEN npos
    ELSE IF ~IsWhitespace(Ch(str, p)) THEN p
    ELSE find_last_not_of(str, p - 1)

\* trim(str): strips leading and trailing whitespace.
trim(str) ==
    LET start == find_first_not_of(str, 0)
    IN  IF start = npos THEN ""
        ELSE LET end == find_last_not_of(str, Len(str) - 1)
             IN  substr(str, start, end - start + 1)

\* str.find(pat, start): first position >= start where pat occurs.
RECURSIVE find(_, _, _)
find(str, pat, start) ==
    IF start + Len(pat) > Len(str) THEN npos
    ELSE IF substr(str, start, Len(pat)) = pat THEN start
    ELSE find(str, pat, start + 1)

\* str.rfind(pat, pos): last position <= pos where pat occurs.
RECURSIVE rfindFrom(_, _, _)
rfindFrom(str, pat, p) ==
    IF p < 0 THEN npos
    ELSE IF substr(str, p, Len(pat)) = pat THEN p
    ELSE rfindFrom(str, pat, p - 1)

rfindAt(str, pat, pos) ==
    IF Len(pat) > Len(str) THEN npos
    ELSE rfindFrom(str, pat, Min(pos, Len(str) - Len(pat)))

\* str.rfind(pat): last position where pat occurs.
rfind(str, pat) == rfindAt(str, pat, Len(str))

\* ------------------------------------------------------------------------
\* std::stoi and std::stod
\* ------------------------------------------------------------------------

IsDigit(c) == c \in {"0", "1", "2", "3", "4", "5", "6", "7", "8", "9"}

DigitVal(c) ==
    CASE c = "0" -> 0 [] c = "1" -> 1 [] c = "2" -> 2 [] c = "3" -> 3
      [] c = "4" -> 4 [] c = "5" -> 5 [] c = "6" -> 6 [] c = "7" -> 7
      [] c = "8" -> 8 [] c = "9" -> 9

\* Number of leading digits of str from position p.
RECURSIVE DigitRun(_, _)
DigitRun(str, p) ==
    IF p < Len(str) /\ IsDigit(Ch(str, p)) THEN 1 + DigitRun(str, p + 1) ELSE 0

\* The digits of str from position p accumulated into a 32-bit int of sign
\* neg; the magnitude is kept in m.  The conversion stops at the first
\* character that is not a digit; a value outside [INT_MIN, INT_MAX] is
\* std::out_of_range.
RECURSIVE stoiDigits(_, _, _, _)
stoiDigits(str, p, neg, m) ==
    IF p >= Len(str) \/ ~IsDigit(Ch(str, p))
    THEN [kind |-> "ok", val |-> IF neg THEN 0 - m ELSE m]
    ELSE LET d == DigitVal(Ch(str, p))
             limit == IF neg
                      THEN (IF d = 0 THEN IntMax \div 10
                                     ELSE (IntMax - d + 1) \div 10)
                      ELSE (IntMax - d) \div 10
         IN  IF m > limit
             THEN [kind |-> "out_of_range", val |-> 0]
             ELSE IF neg /\ m * 10 + (d - 1) = IntMax
             THEN IF p + 1 >= Len(str) \/ ~IsDigit(Ch(str, p + 1))
                  THEN [kind |-> "ok", val |-> (0 - IntMax) - 1]
                  ELSE [kind |-> "out_of_range", val |-> 0]
             ELSE stoiDigits(str, p + 1, neg, m * 10 + d)

\* The position of the first character of str that strtol and strtod do not
\* skip as leading whitespace.
SkipWs(str) ==
    IF find_first_not_of(str, 0) = npos THEN Len(str)
    ELSE find_first_not_of(str, 0)

\* The digits of a numeral whose sign, if any, is at position p.
stoiSigned(str, p) ==
    IF p < Len(str) /\ Ch(str, p) \in {"+", "-"}
    THEN (IF DigitRun(str, p + 1) = 0
          THEN [kind |-> "invalid_argument", val |-> 0]
          ELSE stoiDigits(str, p + 1, Ch(str, p) = "-", 0))
    ELSE (IF DigitRun(str, p) = 0
          THEN [kind |-> "invalid_argument", val |-> 0]
          ELSE stoiDigits(str, p, FALSE, 0))

\* std::stoi(str): skips leading whitespace, takes an optional sign and the
\* longest run of digits; no digit at all is std::invalid_argument.
stoi(str) == stoiSigned(str, SkipWs(str))

\* Hexadecimal digits and their values.
IsHexDigit(c) ==
    IsDigit(c) \/ tolowerCh(c) \in {"a", "b", "c", "d", "e", "f"}

HexVal(c) ==
    IF IsDigit(c) THEN DigitVal(c)
    ELSE CASE tolowerCh(c) = "a" -> 10 [] tolowerCh(c) = "b" -> 11
           [] tolowerCh(c) = "c" -> 12 [] tolowerCh(c) = "d" -> 13
           [] tolowerCh(c) = "e" -> 14 [] tolowerCh(c) = "f" -> 15

RECURSIVE Pow(_, _)
Pow(b, n) == IF n = 0 THEN 1 ELSE b * Pow(b, n - 1)

Max(a, b) == IF a > b THEN a ELSE b

\* Number of binary digits of m > 0.
RECURSIVE BitLen(_)
BitLen(m) == IF m < 2 THEN 1 ELSE 1 + BitLen(m \div 2)

\* A natural number of any size is the sequence of its limbs, least
\* significant first, without leading zero limbs; zero is << >>.
Limb == Pow(2, LimbBits)

Zeros(j) == [k \in 1 .. j |-> 0]

\* n without its leading zero limbs.
BigNorm(n) ==
    SubSeq(n, 1, Len(n) - Cardinality({j \in 1 .. Len(n) :
                                         \A m \in j .. Len(n) : n[m] = 0}))

\* The limbs lo .. hi of n * k + c and the carry c out of them, for k and
\* c below Limb; the lower half of the limbs first, its carry into the
\* upper half.
BigMulJoin(first, second) ==
    [out |-> first.out \o second.out, c |-> second.c]

RECURSIVE BigMulRange(_, _, _, _, _)
BigMulUpper(n, k, lo, hi, first) ==
    BigMulJoin(first, BigMulRange(n, k, (lo + hi) \div 2 + 1, hi, first.c))

BigMulRange(n, k, lo, hi, c) ==
    IF lo > hi THEN [out |-> << >>, c |-> c]
    ELSE IF lo = hi
    THEN [out |-> << (n[lo] * k + c) % Limb >>,
          c |-> (n[lo] * k + c) \div Limb]
    ELSE BigMulUpper(n, k, lo, hi,
                     BigMulRange(n, k, lo, (lo + hi) \div 2, c))

BigMulCarry(d) == IF d.c = 0 THEN d.out ELSE Append(d.out, d.c)

\* n * k + c for k and c below Limb.
BigMulAdd(n, k, c) == BigMulCarry(BigMulRange(n, k, 1, Len(n), c))

\* The limbs hi .. lo of the quotient of n divided by k <= Limb, the most
\* significant first, and the remainder r left, when r is the remainder of
\* the limbs above hi; the upper half of the limbs first, its remainder
\* into the lower half.
BigDivJoin(first, second) ==
    [q |-> first.q \o second.q, r |-> second.r]

RECURSIVE BigDivRange(_, _, _, _, _)
BigDivLower(n, k, lo, hi, first) ==
    BigDivJoin(first, BigDivRange(n, k, lo, (lo + hi) \div 2, first.r))

BigDivRange(n, k, lo, hi, r) ==
    IF lo > hi THEN [q |-> << >>, r |-> r]
    ELSE IF lo = hi
    THEN [q |-> << (r * Limb + n[lo]) \div k >>,
          r |-> (r * Limb + n[lo]) % k]
    ELSE BigDivLower(n, k, lo, hi,
                     BigDivRange(n, k, (lo + hi) \div 2 + 1, hi, r))

Reverse(s) == [j \in 1 .. Len(s) |-> s[Len(s) + 1 - j]]

BigDivNorm(d) == [q |-> BigNorm(Reverse(d.q)), r |-> d.r]

\* Quotient q and remainder r of n divided by k <= Limb.
BigDiv(n, k) == BigDivNorm(BigDivRange(n, k, 1, Len(n), 0))

\* n * 5^e, at most six factors at a time (5^6 is below Limb).
RECURSIVE BigMulPow5(_, _)
BigMulPow5(n, e) ==
    IF n = << >> THEN n
    ELSE IF e <= 6 THEN BigMulAdd(n, Pow(5, e), 0)
    ELSE BigMulPow5(BigMulPow5(n, e \div 2), e - e \div 2)

\* d.q divided by 5^e, at most six factors at a time; sticky tells that a
\* non-zero remainder was dropped.
BigDivSticky(d, res) == [q |-> res.q, sticky |-> d.sticky \/ res.r # 0]

RECURSIVE BigDivPow5(_, _)
BigDivPow5(d, e) ==
    IF d.q = << >> THEN d
    ELSE IF e <= 6 THEN BigDivSticky(d, BigDiv(d.q, Pow(5, e)))
    ELSE BigDivPow5(BigDivPow5(d, e \div 2), e - e \div 2)

\* d.q divided by 10^e, at most four factors at a time (10^4 is below
\* Limb).
RECURSIVE BigDivPow10(_, _)
BigDivPow10(d, e) ==
    IF d.q = << >> THEN d
    ELSE IF e <= 4 THEN BigDivSticky(d, BigDiv(d.q, Pow(10, e)))
    ELSE BigDivPow10(BigDivPow10(d, e \div 2), e - e \div 2)

\* Number of binary digits of n; 0 for zero.
BigBitLen(n) ==
    IF Len(n) = 0 THEN 0
    ELSE LimbBits * (Len(n) - 1) + BitLen(n[Len(n)])

BigOdd(n) == Len(n) > 0 /\ n[1] % 2 = 1

\* n shifted right by s >= 0 bits: the quotient q, and whether a non-zero
\* bit was lost.
BigShifted(dropped, d) ==
    [q |-> d.q,
     lost |-> d.r # 0 \/ \E k \in 1 .. Len(dropped) : dropped[k] # 0]

BigShiftRight(n, s) ==
    BigShifted(SubSeq(n, 1, Min(s \div LimbBits, Len(n))),
               BigDiv(SubSeq(n, Min(s \div LimbBits, Len(n)) + 1, Len(n)),
                      Pow(2, s % LimbBits)))

\* A double: its class ("fin", "inf" or "nan"), its sign bit, and for a
\* finite value the magnitude mant * 2^exp as IEEE 754 holds it: mant has
\* DBL_MANT_DIG bits, or fewer with exp = DBL_MIN_EXP - DBL_MANT_DIG for a
\* subnormal value; zero is mant = << >>, exp = 0.
Double(cls, neg, mant, exp) ==
    [cls |-> cls, neg |-> neg, mant |-> mant, exp |-> exp]

\* The double a default-constructed Hecho holds (factorCerteza = 0.0).
Zero == Double("fin", FALSE, << >>, 0)

StodOk(val) == [kind |-> "ok", val |-> val]
StodInvalid == [kind |-> "invalid_argument", val |-> Zero]
StodRange == [kind |-> "out_of_range", val |-> Zero]

\* What strtod has read before it starts: a finite decimal numeral, no
\* sign, no digit.  m is the mantissa read, as a natural number of any
\* size; nd counts its digits, ns those from the first non-zero one on, and
\* nf those after the point; ex is the exponent with its sign eneg.
ScanInit == [cls |-> "fin", base |-> 10, neg |-> FALSE, m |-> << >>,
             nd |-> 0, ns |-> 0, nf |-> 0, eneg |-> FALSE, ex |-> 0]

\* The scan a after one more mantissa digit of value d, a fraction digit
\* when f = 1.
PushDigit(a, d, f) ==
    [a EXCEPT !.m = BigMulAdd(@, a.base, d),
              !.nd = @ + 1,
              !.ns = IF @ = 0 /\ d = 0 THEN 0 ELSE @ + 1,
              !.nf = @ + f]

\* Where the exponent digits start when the exponent letter is at
\* position p.
ExpStart(str, p) ==
    IF p + 1 < Len(str) /\ Ch(str, p + 1) \in {"+", "-"} THEN p + 2 ELSE p + 1

\* Number of digits of the base (10 or 16) that str has from position p
\* on.
IsDigitOf(c, base) == IF base = 16 THEN IsHexDigit(c) ELSE IsDigit(c)

stodRun(str, p, base) ==
    (CHOOSE q \in p .. Len(str) :
        /\ q = Len(str) \/ ~IsDigitOf(Ch(str, q), base)
        /\ \A r \in p .. q - 1 : IsDigitOf(Ch(str, r), base)) - p

\* The scan a after the mantissa digits at positions lo .. hi of str,
\* fraction digits when f = 1: those of the first half, then those of the
\* second half.
RECURSIVE PushDigits(_, _, _, _, _)
PushDigits(str, lo, hi, f, a) ==
    IF lo > hi \/ ~IsDigitOf(Ch(str, lo), a.base) THEN a
    ELSE IF lo = hi THEN PushDigit(a, HexVal(Ch(str, lo)), f)
    ELSE PushDigits(str, (lo + hi) \div 2 + 1, hi, f,
                    PushDigits(str, lo, (lo + hi) \div 2, f, a))

\* The exponent ex after the exponent digits at positions lo .. hi of str.
\* It stops growing at limit: strtod reads no exponent beyond a limit it
\* sets from the digits read, past which the result overflows or
\* underflows whatever the mantissa.
RECURSIVE ExpDigits(_, _, _, _, _)
ExpDigits(str, lo, hi, limit, ex) ==
    IF ex >= limit THEN limit
    ELSE IF lo > hi THEN ex
    ELSE IF lo = hi THEN Min(ex * 10 + DigitVal(Ch(str, lo)), limit)
    ELSE ExpDigits(str, (lo + hi) \div 2 + 1, hi, limit,
                   ExpDigits(str, lo, (lo + hi) \div 2, limit, ex))

\* A limit for the exponent of a numeral of a.nd mantissa digits, of at
\* most four bits each: with an exponent this large the magnitude is
\* above 2^DBL_MAX_EXP, or below 2^(DBL_MIN_EXP - DBL_MANT_DIG - 1) with
\* the exponent negative.
ExpLimit(a) == DblMaxExp - DblMinExp + DblMantDig + 4 * a.nd

\* strtod's scan of str: leading whitespace, sign, then "inf" or "nan" in
\* any case, or a numeral: hexadecimal after "0x", decimal otherwise, with
\* integer digits, fraction digits, and an exponent ('p' or 'e') when
\* digits follow the letter and its optional sign.
stodExpRun(str, p, run, a) ==
    IF run > 0
    THEN [a EXCEPT !.eneg = (Ch(str, p - 1) = "-"),
                   !.ex = ExpDigits(str, p, p + run - 1, ExpLimit(a), 0)]
    ELSE a

stodExp(str, p, a) ==
    IF /\ a.nd > 0
       /\ p < Len(str)
       /\ Ch(str, p) \in (IF a.base = 16 THEN {"p", "P"} ELSE {"e", "E"})
    THEN stodExpRun(str, ExpStart(str, p),
                    stodRun(str, ExpStart(str, p), 10), a)
    ELSE a

stodFracRun(str, p, run, a) ==
    stodExp(str, p + run, PushDigits(str, p, p + run - 1, 1, a))

stodFrac(str, p, a) ==
    IF p < Len(str) /\ Ch(str, p) = "."
    THEN stodFracRun(str, p + 1, stodRun(str, p + 1, a.base), a)
    ELSE stodExp(str, p, a)

stodIntRun(str, p, run, a) ==
    stodFrac(str, p + run, PushDigits(str, p, p + run - 1, 0, a))

stodInt(str, p, a) == stodIntRun(str, p, stodRun(str, p, a.base), a)

stodPrefix(str, p, a) ==
    IF toLower(substr(str, p, 3)) \in {"inf", "nan"}
    THEN [a EXCEPT !.cls = toLower(substr(str, p, 3))]
    ELSE IF toLower(substr(str, p, 2)) = "0x"
    THEN stodInt(str, p + 2, [a EXCEPT !.base = 16])
    ELSE stodInt(str, p, a)

stodSign(str, p) ==
    IF p < Len(str) /\ Ch(str, p) \in {"+", "-"}
    THEN stodPrefix(str, p + 1, [ScanInit EXCEPT !.neg = (Ch(str, p) = "-")])
    ELSE stodPrefix(str, p, ScanInit)

stodScan(str) == stodSign(str, SkipWs(str))

\* round_away of strtod in the round-to-nearest mode: the result moves
\* away from zero when the bit below the last one kept is set and so is
\* the last bit kept or some bit further below.
round_away(last_digit_odd, half_bit, more_bits) ==
    half_bit /\ (last_digit_odd \/ more_bits)

BigInc(n) == BigMulAdd(n, 1, 1)

\* The normal double mant * 2^(exponent - DBL_MANT_DIG + 1), or
\* std::out_of_range (errno = ERANGE) when its exponent reaches
\* DBL_MAX_EXP.
stodOverflow(neg, mant, exponent) ==
    IF exponent >= DblMaxExp THEN StodRange
    ELSE StodOk(Double("fin", neg, mant, exponent - (DblMantDig - 1)))

\* The mantissa after rounding may have one bit more than DBL_MANT_DIG.
stodNormal(neg, mant, exponent) ==
    IF BigBitLen(mant) > DblMantDig
    THEN stodOverflow(neg, BigDiv(mant, 2).q, exponent + 1)
    ELSE stodOverflow(neg, mant, exponent)

\* The subnormal result: retval holds the bits kept after the shift, half
\* the bit below them and more tells a non-zero bit further below.  A tiny
\* inexact result is std::out_of_range (errno = ERANGE).
stodSubRounded(neg, retval, half, more, is_tiny) ==
    IF is_tiny /\ (half \/ more) THEN StodRange
    ELSE StodOk(Double("fin", neg,
                       IF round_away(BigOdd(retval), half, more)
                       THEN BigInc(retval) ELSE retval,
                       DblMinExp - DblMantDig))

stodSubnormal(neg, sh, is_tiny, more) ==
    stodSubRounded(neg, BigDiv(sh.q, 2).q, BigOdd(sh.q), more \/ sh.lost,
                   is_tiny)

\* round_and_return of glibc's strtod (glibc 2.36): retval holds the
\* DBL_MANT_DIG leading bits of the magnitude, whose leading bit weighs
\* 2^exponent, half is the bit below them and more tells a non-zero bit
\* further below.  Below 2^(DBL_MIN_EXP - 1) retval is shifted to the
\* subnormal precision: the bits shifted out of retval make the new half
\* and more, and the old half bit is dropped.  The magnitude is tiny
\* unless the shift is of one bit and rounding retval to DBL_MANT_DIG bits
\* carries into 2^(DBL_MIN_EXP - 1): tininess is detected after rounding
\* on x86.
round_and_return(neg, retval, exponent, half, more) ==
    IF exponent < DblMinExp - 1
    THEN IF exponent < DblMinExp - 1 - DblMantDig THEN StodRange
         ELSE stodSubnormal(
                  neg,
                  BigShiftRight(retval, DblMinExp - 1 - exponent - 1),
                  ~(/\ DblMinExp - 1 - exponent = 1
                    /\ round_away(BigOdd(retval), half, more)
                    /\ BigBitLen(BigInc(retval)) > DblMantDig),
                  more)
    ELSE stodNormal(neg,
                    IF round_away(BigOdd(retval), half, more)
                    THEN BigInc(retval) ELSE retval,
                    exponent)

\* sr holds the DBL_MANT_DIG + 1 leading bits of the magnitude and tells
\* whether a non-zero bit was lost below them.
stodTop(neg, sr, sticky, exponent) ==
    round_and_return(neg, BigDiv(sr.q, 2).q, exponent, BigOdd(sr.q),
                     sticky \/ sr.lost)

\* The result for (Q + f) * 2^t, where Q has L >= DBL_MANT_DIG + 2 bits
\* and 0 <= f < 1 with f > 0 exactly when sticky.
stodRound(neg, Q, sticky, t, L) ==
    stodTop(neg, BigShiftRight(Q, L - DblMantDig - 1), sticky, t + L - 1)

\* The result of std::stod for the magnitude (Q + f) * 2^t, Q > 0: Q is
\* first given DBL_MANT_DIG + 2 bits or more.
stodRange(neg, Q, sticky, t) ==
    IF BigBitLen(Q) < DblMantDig + 2
    THEN stodRound(neg,
                   Zeros((DblMantDig + 1) \div LimbBits + 1) \o Q,
                   sticky,
                   t - LimbBits * ((DblMantDig + 1) \div LimbBits + 1),
                   BigBitLen(Q)
                     + LimbBits * ((DblMantDig + 1) \div LimbBits + 1))
    ELSE stodRound(neg, Q, sticky, t, BigBitLen(Q))

\* The quotient d of m * 2^(LimbBits * j) by 5^k as a magnitude to round.
stodQuotient(neg, d, j, k) ==
    stodRange(neg, d.q, d.sticky, 0 - k - LimbBits * j)

\* Number of zero limbs to put below a mantissa of L bits so that its
\* quotient by 5^k (5 < 2^(7/3)) has DBL_MANT_DIG + 2 bits or more.
LimbsFor(L, k) ==
    Max(0, (DblMantDig + 3 + (7 * k + 2) \div 3 - L + LimbBits - 1)
           \div LimbBits)

\* Number of digits after the point that strtod looks at in a numeral
\* 0.d1d2... * 10^g below 1 (d1 not 0, g <= 0): the numeral is 2^-n or
\* more for n = (1 - g) * 10 / 3 + 1, DBL_MANT_DIG bits are needed from
\* there, and none past a quarter of the unit of the subnormal values.
NeedFracDigits(g) ==
    Min(((1 - g) * 10) \div 3 + 1 + DblMantDig, DblMantDig - DblMinExp + 2)

\* strtod drops the digits of m * 10^e that lie further after the point
\* and only keeps that a non-zero digit was dropped.
DigitsCut(m, ns, e) ==
    /\ ns + e <= 0
    /\ 0 - e > NeedFracDigits(ns + e)
    /\ BigDivPow10([q |-> m, sticky |-> FALSE],
                   0 - e - NeedFracDigits(ns + e)).sticky

\* The result of std::stod for the decimal m * 10^e read with sign neg, m > 0
\* having ns decimal digits.  A magnitude of 10^(DBL_MAX_10_EXP + 1) or more
\* overflows and one below 10^DblTrueMin10Exp rounds to zero; otherwise
\* m * 10^e = m * 5^e * 2^e is computed exactly.
stodDecimal(neg, m, ns, e) ==
    IF ns + e - 1 > DblMax10Exp THEN StodRange
    ELSE IF ns + e - 1 < DblTrueMin10Exp THEN StodRange
    ELSE IF e >= 0 THEN stodRange(neg, BigMulPow5(m, e), FALSE, e)
    ELSE stodQuotient(
             neg,
             BigDivPow5([q |-> Zeros(LimbsFor(BigBitLen(m), 0 - e)) \o m,
                         sticky |-> DigitsCut(m, ns, e)],
                        0 - e),
             LimbsFor(BigBitLen(m), 0 - e),
             0 - e)

\* The result of std::stod from what the scan has read.  "0x" without a
\* hexadecimal digit after it is the numeral "0".
stodResult(a) ==
    IF a.cls # "fin" THEN StodOk(Double(a.cls, a.neg, << >>, 0))
    ELSE IF a.nd = 0 /\ a.base = 10 THEN StodInvalid
    ELSE IF a.m = << >> THEN StodOk(Double("fin", a.neg, << >>, 0))
    ELSE IF a.base = 16
    THEN stodRange(a.neg, a.m, FALSE,
                   (IF a.eneg THEN 0 - a.ex ELSE a.ex) - 4 * a.nf)
    ELSE stodDecimal(a.neg, a.m, a.ns,
                     (IF a.eneg THEN 0 - a.ex ELSE a.ex) - a.nf)

\* std::stod(str): neither a numeral nor "inf" nor "nan" after the optional
\* sign is std::invalid_argument; a magnitude outside the range of a double
\* is std::out_of_range; otherwise the result is the double nearest to the
\* numeral, so that two numerals that round to the same double give the
\* same result.
stod(str) == stodResult(stodScan(str))

\* ------------------------------------------------------------------------
\* Data structures
\* ------------------------------------------------------------------------

\* enum class OperadorLogico
OperadorLogico == {"NINGUNO", "Y", "O"}

\* struct Hecho, default-constructed with the given name.
Hecho(nombre) == [nombre |-> nombre, factorCerteza |-> Zero]

\* struct Antecedente, default-constructed.
AntecedenteVacio == [condiciones |-> <<>>, operador |-> "NINGUNO"]

\* struct BaseConocimiento, default-constructed.
BaseConocimientoVacia == [reglas |-> <<>>]

\* struct BaseHechos, default-constructed; fc_memoria is a function from the
\* names it holds to their certainty.
BaseHechosVacia ==
    [hechos_iniciales |-> <<>>, objetivo |-> Hecho(""), fc_memoria |-> <<>>]

\* ------------------------------------------------------------------------
\* parsearAntecedente
\* ------------------------------------------------------------------------

\* The while loops of parsearAntecedente: the literals of alfaStr cut at the
\* occurrences of op in alfaLower, pos being the next occurrence.
RECURSIVE Literales(_, _, _, _, _)
Literales(alfaStr, alfaLower, op, start, pos) ==
    IF pos = npos
    THEN << trim(substrFrom(alfaStr, start)) >>
    ELSE << trim(substr(alfaStr, start, pos - start)) >>
         \o Literales(alfaStr, alfaLower, op, pos + Len(op),
                      find(alfaLower, op, pos + Len(op)))

\* A faulty variant of ElegirOperador: "O" wins whenever " o " occurs.
ElegirOperador_OFirst(posY, posO) ==
    IF posO # npos THEN "O"
    ELSE IF posY # npos THEN "Y"
    ELSE "NINGUNO"

\* The operator chosen from the positions of the first " y " and " o ".
ElegirOperador(posY, posO) ==
    IF posY # npos /\ (posO = npos \/ posY < posO) THEN "Y"
    ELSE IF posO # npos THEN "O"
    ELSE "NINGUNO"

\* A faulty variant of parsearAntecedente's literal loop: empty literals are skipped.
RECURSIVE PushLiterales_SkipEmpty(_, _, _)
PushLiterales_SkipEmpty(literalesStr, k, condiciones) ==
    IF k > Len(literalesStr) THEN [ok |-> TRUE, condiciones |-> condiciones]
    ELSE IF literalesStr[k] # ""
    THEN PushLiterales_SkipEmpty(literalesStr, k + 1,
                                 Append(condiciones, Hecho(literalesStr[k])))
    ELSE PushLiterales_SkipEmpty(literalesStr, k + 1, condiciones)

\* The for loop over literalesStr: each non-empty literal is pushed onto
\* condiciones; the first empty one stops the loop with failure.
RECURSIVE PushLiterales(_, _, _)
PushLiterales(literalesStr, k, condiciones) ==
    IF k > Len(literalesStr) THEN [ok |-> TRUE, condiciones |-> condiciones]
    ELSE IF literalesStr[k] # ""
    THEN PushLiterales(literalesStr, k + 1,
                       Append(condiciones, Hecho(literalesStr[k])))
    ELSE [ok |-> FALSE, condiciones |-> condiciones]

\* literalesStr as the three branches of lines 80-101 fill it.
LiteralesStr(alfaStr, alfaLower, operador, posY, posO) ==
    IF operador = "Y" THEN Literales(alfaStr, alfaLower, " y ", 0, posY)
    ELSE IF operador = "O" THEN Literales(alfaStr, alfaLower, " o ", 0, posO)
    ELSE << trim(alfaStr) >>

\* Lines 103-114: what the call returns once the literals have been pushed.
AntecedenteResultado(operador, pushed) ==
    [ret |-> pushed.ok /\ pushed.condiciones # <<>>,
     antecedente |-> [condiciones |-> pushed.condiciones,
                      operador |-> operador],
     cerr |-> IF pushed.ok THEN <<>> ELSE << "EmptyLiteral" >>]

\* Lines 75-101 for the positions of the first " y " and the first " o ".
AntecedenteCon(alfaStr, alfaLower, antecedente, posY, posO) ==
    AntecedenteResultado(
        ElegirOperador(posY, posO),
        PushLiterales(LiteralesStr(alfaStr, alfaLower,
                                   ElegirOperador(posY, posO), posY, posO),
                      1, antecedente.condiciones))

\* Lines 72-76 for the case-folded copy of the text.
AntecedenteLower(alfaStr, alfaLower, antecedente) ==
    AntecedenteCon(alfaStr, alfaLower, antecedente,
                   find(alfaLower, " y ", 0), find(alfaLower, " o ", 0))

\* parsearAntecedente(alfaStr, antecedente): the value returned, the
\* Antecedente as the call leaves it, and what it wrote to std::cerr.
parsearAntecedente(alfaStr, antecedente) ==
    AntecedenteLower(alfaStr, toLower(alfaStr), antecedente)

\* ------------------------------------------------------------------------
\* The body of cargarReglas's loop for one non-blank line
\* ------------------------------------------------------------------------

\* struct Regla, default-constructed (factorCertezaRegla has no initialiser;
\* it is never read before line 185 assigns it).
ReglaVacia ==
    [id |-> "", antecedente |-> AntecedenteVacio, consecuente |-> Hecho(""),
     factorCertezaRegla |-> Zero]

\* The outcomes of one line: st = "ok" with the Regla or Hecho to append,
\* "error" (diagnostics written, return false) or "throw" (an exception
\* that no handler of the loader catches).
LineaError(kinds) == [st |-> "error", cerr |-> kinds, r |-> ReglaVacia]
LineaThrow == [st |-> "throw", cerr |-> <<>>, r |-> ReglaVacia]

\* Line 163: r.id = trim(linea.substr(0, posColon))
ExtraerId(linea, posColon) == trim(substr(linea, 0, posColon))

\* Lines 213-232: the checks of alfaStr and betaStr, the antecedent parser
\* and the Regla built.
ReglaClausulas(id, fc, alfaStr, betaStr, ant) ==
    IF alfaStr = "" THEN LineaError(<< "EmptyClause" >>)
    ELSE IF betaStr = "" THEN LineaError(<< "EmptyClause" >>)
    ELSE IF ~ant.ret THEN LineaError(ant.cerr \o << "AntecedentError" >>)
    ELSE [st |-> "ok", cerr |-> <<>>,
          r |-> [id |-> id, antecedente |-> ant.antecedente,
                 consecuente |-> Hecho(trim(betaStr)),
                 factorCertezaRegla |-> fc]]

\* Lines 204-211: the " entonces " marker, found at posEntonces when the
\* search starts after the "si " marker (whose length is siLen).
ReglaEntonces(id, fc, reglaSiEntonces, siLen, posEntonces) ==
    IF posEntonces = npos THEN LineaError(<< "MissingKeyword" >>)
    ELSE ReglaClausulas(
             id, fc,
             trim(substr(reglaSiEntonces, siLen, posEntonces - siLen)),
             trim(substrFrom(reglaSiEntonces,
                             posEntonces + Len(" entonces "))),
             parsearAntecedente(
                 trim(substr(reglaSiEntonces, siLen, posEntonces - siLen)),
                 AntecedenteVacio))

\* Lines 194-202: the "si " marker must be at position 0.
ReglaSi(id, fc, reglaSiEntonces, reglaSiEntoncesLower) ==
    IF find(reglaSiEntoncesLower, "si ", 0) # 0
    THEN LineaError(<< "MissingKeyword" >>)
    ELSE ReglaEntonces(id, fc, reglaSiEntonces, Len("si "),
                       find(reglaSiEntoncesLower, " entonces ", Len("si ")))

\* Lines 184-191: the certainty factor fc that std::stod gave.
ReglaFc(id, fc, reglaSiEntonces) ==
    IF fc.kind = "invalid_argument" THEN LineaError(<< "InvalidNumber" >>)
    ELSE IF fc.kind = "out_of_range" THEN LineaThrow
    ELSE ReglaSi(id, fc.val, reglaSiEntonces, toLower(reglaSiEntonces))

\* Lines 176-183: the comma before the marker found at posFc.
ReglaComa(id, defReglaCompleta, posFc, posComaAntesFc) ==
    IF posComaAntesFc = npos THEN LineaError(<< "MissingDelimiter" >>)
    ELSE ReglaFc(id,
                 stod(trim(substrFrom(defReglaCompleta, posFc + Len("fc=")))),
                 trim(substr(defReglaCompleta, 0, posComaAntesFc)))

\* Lines 166-174: the last "fc=" of the case-folded rule body, at posFc.
ReglaMarcador(id, defReglaCompleta, posFc) ==
    IF posFc = npos THEN LineaError(<< "MissingFCMarker" >>)
    ELSE ReglaComa(id, defReglaCompleta, posFc,
                   rfindAt(defReglaCompleta, ",", posFc))

\* Lines 157-164: the first colon of the line, at posColon.
ReglaColon(linea, posColon) ==
    IF posColon = npos THEN LineaError(<< "MissingDelimiter" >>)
    ELSE ReglaMarcador(ExtraerId(linea, posColon),
                       trim(substrFrom(linea, posColon + 1)),
                       rfind(toLower(trim(substrFrom(linea, posColon + 1))),
                             "fc="))

\* Lines 155-232: the Regla a trimmed, non-blank line gives, or its failure.
ParseRegla(linea) == ReglaColon(linea, find(linea, ":", 0))

\* ------------------------------------------------------------------------
\* The body of cargarHechos's loop for one non-blank line
\* ------------------------------------------------------------------------

HechoError(kinds) == [st |-> "error", cerr |-> kinds, h |-> Hecho("")]

\* Lines 297-303: the certainty factor fc that std::stod gave.
HechoFc(nombre, fc) ==
    IF fc.kind = "invalid_argument" THEN HechoError(<< "InvalidNumber" >>)
    ELSE IF fc.kind = "out_of_range"
    THEN [st |-> "throw", cerr |-> <<>>, h |-> Hecho("")]
    ELSE [st |-> "ok", cerr |-> <<>>,
          h |-> [nombre |-> nombre, factorCerteza |-> fc.val]]

\* Lines 289-297: "fc=" must open the case-folded text after the comma.
HechoMarcador(nombre, fcParte) ==
    IF find(toLower(fcParte), "fc=", 0) # 0
    THEN HechoError(<< "MissingKeyword" >>)
    ELSE HechoFc(nombre, stod(trim(substrFrom(fcParte, Len("fc=")))))

\* Lines 281-288: the last comma of the line, at posComa.
HechoComa(linea, posComa) ==
    IF posComa = npos THEN HechoError(<< "MissingDelimiter" >>)
    ELSE HechoMarcador(trim(substr(linea, 0, posComa)),
                       trim(substrFrom(linea, posComa + 1)))

\* Lines 276-303: the Hecho a trimmed, non-blank line gives, or its failure.
ParseHecho(linea) == HechoComa(linea, rfind(linea, ","))

\* A faulty variant of MapPut: std::map::insert, which keeps an existing entry.
MapPut_KeepFirst(m, nombre, fc) ==
    [n \in (DOMAIN m) \cup {nombre} |-> IF n \in DOMAIN m THEN m[n] ELSE fc]

\* bh.fc_memoria[nombre] = fc on a std::map.
MapPut(m, nombre, fc) ==
    [n \in (DOMAIN m) \cup {nombre} |-> IF n = nombre THEN fc ELSE m[n]]

\* ------------------------------------------------------------------------
\* Inputs
\* ------------------------------------------------------------------------

\* The pieces antecedent texts are concatenated from.
Tokens == {"a", "b", "y", " ", "\t", " y ", " o ", " Y "}

\* All concatenations of at most n tokens.
RECURSIVE Textos(_)
Textos(n) ==
    IF n = 0 THEN {""}
    ELSE LET prev == Textos(n - 1)
         IN  prev \cup {t \o k : t \in prev, k \in Tokens}

\* First lines of a file.
CountLines == {"1", "2", " 2\r", "3abc", "abc", "", "-1", "99999999999"}

\* Lines of a rules file after the first (R13 ends its consequent with a
\* vertical tab).
RuleLines ==
    {"R1: Si h2 o h3 Entonces h1, FC = 0.5",
     "R1: Si h2 o h3 Entonces h1, FC=0.5",
     "R3: Si h5 y h6 Entonces h3, FC=-0.7",
     "R2: Si h4 Entonces h1, fc= 1",
     ": Si h4 Entonces h1, FC=1",
     "R5: Si h4 h1, FC=1",
     "R6: h4 Entonces h1, FC=1",
     "R7 Si h4 Entonces h1, FC=1",
     "R8: Si h4 Entonces h1 FC=1",
     "R9: Si h4 Entonces h1, FC=x",
     "R10: Si h4 Entonces h1, FC=1797693134862315808e290",
     "R11: Si h4 y  y h5 Entonces h1, FC=1",
     "R12: Si h4 Entonces h1",
     "R13: Si h4 Entonces h1, FC=0x3ffffffffffffdp-1076",
     "",
     " \t"}

\* Lines of a facts file after the first (h3 is followed by a vertical
\* tab).
FactLines ==
    {"h2, FC = 0.3",
     "h2,FC=0.3",
     "h2, fc=0.9",
     "h4,FC=0.6",
     "h5 FC=0.6",
     "h6,FC=abc",
     "h7,FC=22250738585072013e-324",
     "h3,FC=inf",
     "",
     "Objetivo",
     " OBJETIVO ",
     "h1"}

\* ------------------------------------------------------------------------
\* State
\* ------------------------------------------------------------------------

VARIABLES
    fn,          \* the function the caller runs
    is_open,     \* whether the std::ifstream could open the file
    pc,          \* where the function is, or how it ended
    totalLineas, \* the number of lines the file holds
    archivo,     \* the lines std::getline has delivered so far
    eof,         \* std::getline has reported the end of the input
    numEsperadas,           \* numReglasEsperadas / numHechosEsperados
    i,                      \* the loop index
    leidoKeywordObjetivo,   \* cargarHechos's flag
    bc,          \* the caller's BaseConocimiento
    bh,          \* the caller's BaseHechos
    alfaStr,     \* parsearAntecedente's argument
    antecedente, \* the caller's Antecedente
    cerr         \* the diagnostics written to std::cerr, in order

vars == << fn, is_open, pc, totalLineas, archivo, eof, numEsperadas, i,
           leidoKeywordObjetivo, bc, bh, alfaStr, antecedente, cerr >>

loaderVars == << totalLineas, archivo, eof, numEsperadas, i,
                leidoKeywordObjetivo >>

\* What std::getline can deliver next: the end of the input once every line
\* of the file has been delivered, and before that a line of S.
Lecturas(S) ==
    IF Len(archivo) >= totalLineas
    THEN {[eof |-> TRUE, linea |-> ""]}
    ELSE {[eof |-> FALSE, linea |-> l] : l \in S}

\* The state after construction of the containers, before the call.
InitCommon ==
    /\ archivo = <<>>
    /\ eof = FALSE
    /\ numEsperadas = 0
    /\ i = 0
    /\ leidoKeywordObjetivo = FALSE
    /\ bc = BaseConocimientoVacia
    /\ bh = BaseHechosVacia
    /\ antecedente = AntecedenteVacio
    /\ cerr = <<>>

\* ------------------------------------------------------------------------
\* parsearAntecedente as an operation
\* ------------------------------------------------------------------------

InitAnt ==
    /\ InitCommon
    /\ totalLineas = 0
    /\ is_open = FALSE
    /\ fn = "parsearAntecedente"
    /\ pc = "call"
    /\ alfaStr \in Textos(MaxTok)

ParsearAntecedente ==
    /\ fn = "parsearAntecedente"
    /\ pc = "call"
    /\ LET res == parsearAntecedente(alfaStr, antecedente)
       IN  /\ antecedente' = res.antecedente
           /\ cerr' = cerr \o res.cerr
           /\ pc' = IF res.ret THEN "ret_true" ELSE "ret_false"
    /\ UNCHANGED << fn, is_open, alfaStr, bc, bh, loaderVars >>

NextAnt == ParsearAntecedente

SpecAnt == InitAnt /\ [][NextAnt]_vars

\* ------------------------------------------------------------------------
\* cargarReglas and cargarHechos, one std::getline per step
\* ------------------------------------------------------------------------

\* The caller has constructed the containers and calls the loader on a
\* path: one that cannot be opened, or a file of some number of lines.
InitLoad ==
    /\ InitCommon
    /\ fn \in {"cargarReglas", "cargarHechos"}
    /\ is_open \in BOOLEAN
    /\ totalLineas \in (IF is_open THEN 0 .. (MaxLines + 1) ELSE {0})
    /\ pc = "open"
    /\ alfaStr = ""

\* Lines 121-125 and 243-247: a file that is not open ends the load with
\* the open error before anything is read.
Abrir(f) ==
    /\ fn = f
    /\ pc = "open"
    /\ IF is_open
       THEN /\ pc' = "count"
            /\ cerr' = cerr
       ELSE /\ pc' = "ret_false"
            /\ cerr' = Append(cerr, "OpenFailed")
    /\ UNCHANGED << fn, is_open, bc, bh, alfaStr, antecedente, loaderVars >>

ReglasAbrir == Abrir("cargarReglas")

HechosAbrir == Abrir("cargarHechos")

\* Lines 131-141 and 253-263: the count line.  std::invalid_argument is
\* caught; std::out_of_range is not and leaves the function by exception.
LeerNumero(f) ==
    /\ fn = f
    /\ pc = "count"
    /\ \E in \in Lecturas(CountLines) :
         IF in.eof
         THEN /\ eof' = TRUE
              /\ cerr' = Append(cerr, "EmptyFile")
              /\ pc' = "ret_false"
              /\ UNCHANGED << archivo, numEsperadas >>
         ELSE LET n == stoi(trim(in.linea))
              IN  /\ archivo' = Append(archivo, in.linea)
                  /\ eof' = FALSE
                  /\ IF n.kind = "ok"
                     THEN /\ numEsperadas' = n.val
                          /\ pc' = "loop"
                          /\ cerr' = cerr
                     ELSE IF n.kind = "invalid_argument"
                     THEN /\ cerr' = Append(cerr, "InvalidCount")
                          /\ pc' = "ret_false"
                          /\ UNCHANGED numEsperadas
                     ELSE /\ pc' = "terminate"
                          /\ UNCHANGED << cerr, numEsperadas >>
    /\ UNCHANGED << fn, is_open, totalLineas, i, leidoKeywordObjetivo, bc, bh,
                    alfaStr, antecedente >>

ReglasLeerNumero == LeerNumero("cargarReglas")

HechosLeerNumero == LeerNumero("cargarHechos")

\* A faulty variant of ReglasLinea: the Regla is pushed before its line is checked.
ReglasLinea_PushFirst(leida, linea, res) ==
    /\ archivo' = Append(archivo, leida)
    /\ eof' = FALSE
    /\ IF linea = ""
       THEN UNCHANGED << i, bc, cerr, pc >>
       ELSE /\ bc' = [bc EXCEPT !.reglas = Append(@, res.r)]
            /\ IF res.st = "ok"
               THEN /\ i' = i + 1
                    /\ UNCHANGED << cerr, pc >>
               ELSE /\ cerr' = cerr \o res.cerr
                    /\ pc' = IF res.st = "throw" THEN "terminate"
                                                 ELSE "ret_false"
                    /\ UNCHANGED i

\* A faulty variant of ReglasLinea: a blank line counts as an iteration (no i--).
ReglasLinea_CuentaBlancas(leida, linea, res) ==
    /\ archivo' = Append(archivo, leida)
    /\ eof' = FALSE
    /\ IF linea = ""
       THEN /\ i' = i + 1
            /\ UNCHANGED << bc, cerr, pc >>
       ELSE IF res.st = "ok"
       THEN /\ bc' = [bc EXCEPT !.reglas = Append(@, res.r)]
            /\ i' = i + 1
            /\ UNCHANGED << cerr, pc >>
       ELSE /\ cerr' = cerr \o res.cerr
            /\ pc' = IF res.st = "throw" THEN "terminate" ELSE "ret_false"
            /\ UNCHANGED << i, bc >>

\* Lines 149-233: the loop body for the line std::getline delivered, linea
\* being the line trimmed and res what its parse gives.  A blank line takes
\* i-- and the loop's ++i, which leave i as it was.
ReglasLinea(leida, linea, res) ==
    /\ archivo' = Append(archivo, leida)
    /\ eof' = FALSE
    /\ IF linea = ""
       THEN UNCHANGED << i, bc, cerr, pc >>
       ELSE IF res.st = "ok"
       THEN /\ bc' = [bc EXCEPT !.reglas = Append(@, res.r)]
            /\ i' = i + 1
            /\ UNCHANGED << cerr, pc >>
       ELSE /\ cerr' = cerr \o res.cerr
            /\ pc' = IF res.st = "throw" THEN "terminate" ELSE "ret_false"
            /\ UNCHANGED << i, bc >>

\* Lines 143-233: one iteration of the for loop of cargarReglas.
ReglasIterar ==
    /\ fn = "cargarReglas"
    /\ pc = "loop"
    /\ i < numEsperadas
    /\ \E in \in Lecturas(RuleLines) :
         IF in.eof
         THEN /\ eof' = TRUE
              /\ cerr' = Append(cerr, "UnexpectedEOF")
              /\ pc' = "ret_false"
              /\ UNCHANGED << archivo, i, bc >>
         ELSE ReglasLinea(in.linea, trim(in.linea),
                          ParseRegla(trim(in.linea)))
    /\ UNCHANGED << fn, is_open, totalLineas, numEsperadas, leidoKeywordObjetivo, bh,
                    alfaStr, antecedente >>

\* size() != n with n an int: n is converted to size_t, so a negative n
\* differs from every size.
SizeDiffers(size, n) == n < 0 \/ size # n

\* Lines 234-239: after the loop of cargarReglas.
ReglasFin ==
    /\ fn = "cargarReglas"
    /\ pc = "loop"
    /\ ~(i < numEsperadas)
    /\ cerr' = IF SizeDiffers(Len(bc.reglas), numEsperadas)
               THEN Append(cerr, "CountMismatch") ELSE cerr
    /\ pc' = "ret_true"
    /\ UNCHANGED << fn, is_open, bc, bh, alfaStr, antecedente, loaderVars >>

\* Lines 270-307: the loop body for the line std::getline delivered, linea
\* being the line trimmed and res what its parse gives.
HechosLinea(leida, linea, res) ==
    /\ archivo' = Append(archivo, leida)
    /\ eof' = FALSE
    /\ IF linea = ""
       THEN UNCHANGED << i, bh, cerr, pc >>
       ELSE IF res.st = "ok"
       THEN /\ bh' = [bh EXCEPT
                        !.hechos_iniciales = Append(@, res.h),
                        !.fc_memoria = MapPut(@, res.h.nombre,
                                              res.h.factorCerteza)]
            /\ i' = i + 1
            /\ UNCHANGED << cerr, pc >>
       ELSE /\ cerr' = cerr \o res.cerr
            /\ pc' = IF res.st = "throw" THEN "terminate" ELSE "ret_false"
            /\ UNCHANGED << i, bh >>

\* Lines 265-307: one iteration of the for loop of cargarHechos.
HechosIterar ==
    /\ fn = "cargarHechos"
    /\ pc = "loop"
    /\ i < numEsperadas
    /\ \E in \in Lecturas(FactLines) :
         IF in.eof
         THEN /\ eof' = TRUE
              /\ cerr' = Append(cerr, "UnexpectedEOF")
              /\ pc' = "ret_false"
              /\ UNCHANGED << archivo, i, bh >>
         ELSE HechosLinea(in.linea, trim(in.linea),
                          ParseHecho(trim(in.linea)))
    /\ UNCHANGED << fn, is_open, totalLineas, numEsperadas, leidoKeywordObjetivo, bc,
                    alfaStr, antecedente >>

\* Lines 309-315: after the loop of cargarHechos.
HechosFinBucle ==
    /\ fn = "cargarHechos"
    /\ pc = "loop"
    /\ ~(i < numEsperadas)
    /\ cerr' = IF SizeDiffers(Len(bh.hechos_iniciales), numEsperadas)
               THEN Append(cerr, "CountMismatch") ELSE cerr
    /\ leidoKeywordObjetivo' = FALSE
    /\ pc' = "objetivo"
    /\ UNCHANGED << fn, is_open, totalLineas, archivo, eof, numEsperadas, i, bc, bh,
                    alfaStr, antecedente >>

\* Lines 338-347: the input ended inside the while loop.
ObjetivoFin ==
    /\ eof' = TRUE
    /\ UNCHANGED << archivo, leidoKeywordObjetivo, bh >>
    /\ IF ~leidoKeywordObjetivo
       THEN /\ cerr' = Append(cerr, "UnexpectedEOF")
            /\ pc' = "ret_false"
       ELSE IF bh.objetivo.nombre = ""
       THEN /\ cerr' = Append(cerr, "UnexpectedEOF")
            /\ pc' = "ret_false"
       ELSE /\ cerr' = cerr
            /\ pc' = "ret_true"

\* A faulty variant of ObjetivoLinea: any first non-blank line is taken as the
\* keyword.
ObjetivoLinea_AnyKeyword(leida, linea) ==
    /\ archivo' = Append(archivo, leida)
    /\ eof' = FALSE
    /\ IF linea = ""
       THEN UNCHANGED << leidoKeywordObjetivo, bh, cerr, pc >>
       ELSE IF ~leidoKeywordObjetivo
       THEN /\ leidoKeywordObjetivo' = TRUE
            /\ UNCHANGED << bh, cerr, pc >>
       ELSE /\ bh' = [bh EXCEPT !.objetivo.nombre = trim(linea)]
            /\ UNCHANGED leidoKeywordObjetivo
            /\ cerr' = cerr
            /\ pc' = "ret_true"

\* Lines 317-335: the body of the while loop for the line std::getline
\* delivered, linea being the line trimmed.
ObjetivoLinea(leida, linea) ==
    /\ archivo' = Append(archivo, leida)
    /\ eof' = FALSE
    /\ IF linea = ""
       THEN UNCHANGED << leidoKeywordObjetivo, bh, cerr, pc >>
       ELSE IF ~leidoKeywordObjetivo
       THEN IF toLower(linea) = "objetivo"
            THEN /\ leidoKeywordObjetivo' = TRUE
                 /\ UNCHANGED << bh, cerr, pc >>
            ELSE /\ cerr' = Append(cerr, "MissingKeyword")
                 /\ pc' = "ret_false"
                 /\ UNCHANGED << leidoKeywordObjetivo, bh >>
       ELSE /\ bh' = [bh EXCEPT !.objetivo.nombre = trim(linea)]
            /\ UNCHANGED leidoKeywordObjetivo
            /\ IF trim(linea) = ""
               THEN /\ cerr' = Append(cerr, "EmptyClause")
                    /\ pc' = "ret_false"
               ELSE /\ cerr' = cerr
                    /\ pc' = "ret_true"

\* Lines 316-347: one std::getline of the while loop of cargarHechos, and
\* the code after the loop when the input has ended.
HechosObjetivo ==
    /\ fn = "cargarHechos"
    /\ pc = "objetivo"
    /\ \E in \in Lecturas(FactLines) :
         IF in.eof THEN ObjetivoFin
         ELSE ObjetivoLinea(in.linea, trim(in.linea))
    /\ UNCHANGED << fn, is_open, totalLineas, numEsperadas, i, bc, alfaStr,
                    antecedente >>

NextLoad ==
    \/ ReglasAbrir
    \/ ReglasLeerNumero
    \/ ReglasIterar
    \/ ReglasFin
    \/ HechosAbrir
    \/ HechosLeerNumero
    \/ HechosIterar
    \/ HechosFinBucle
    \/ HechosObjetivo

SpecLoad == InitLoad /\ [][NextLoad]_vars

\* ------------------------------------------------------------------------
\* Properties of parsearAntecedente (SpecAnt)
\* ------------------------------------------------------------------------

Last(seq) == seq[Len(seq)]

\* The names of the conditions of an Antecedente, in order.
Nombres(ant) ==
    [k \in 1 .. Len(ant.condiciones) |-> ant.condiciones[k].nombre]

AntReturned == fn = "parsearAntecedente" /\ pc \in {"ret_true", "ret_false"}

\* str is not empty and neither starts nor ends with a whitespace character.
Trimmed(str) ==
    /\ Len(str) > 0
    /\ ~IsWhitespace(Ch(str, 0))
    /\ ~IsWhitespace(Ch(str, Len(str) - 1))

\* The positions at which pat occurs in lower.
OcurrenciasEn(lower, pat) ==
    {q \in 0 .. (Len(lower) - Len(pat)) :
        SubSeq(lower, q + 1, q + Len(pat)) = pat}

\* The positions at which pat occurs in the case-folded str.
Ocurrencias(str, pat) == OcurrenciasEn(toLower(str), pat)

Minimo(S) == CHOOSE q \in S : \A r \in S : q <= r

\* The operator the first delimiter of the text asks for.
OperadorPrimero(str) ==
    LET ys == Ocurrencias(str, " y ")
        os == Ocurrencias(str, " o ")
    IN  IF ys # {} /\ (os = {} \/ Minimo(ys) < Minimo(os)) THEN "Y"
        ELSE IF os # {} THEN "O"
        ELSE "NINGUNO"

Delimitador(op) == IF op = "Y" THEN " y " ELSE " o "

\* str without its whitespace characters.
RECURSIVE SinEspacios(_)
SinEspacios(str) ==
    IF Len(str) = 0 THEN ""
    ELSE IF IsWhitespace(Ch(str, 0)) THEN SinEspacios(substrFrom(str, 1))
    ELSE Ch(str, 0) \o SinEspacios(substrFrom(str, 1))

\* The names joined by the delimiter, from the k-th on.
RECURSIVE Unir(_, _, _)
Unir(nombres, delim, k) ==
    IF k > Len(nombres) THEN ""
    ELSE IF k = Len(nombres) THEN nombres[k]
    ELSE nombres[k] \o delim \o Unir(nombres, delim, k + 1)

\* C7: an Antecedente returned with success has at least one condition, every
\* name non-empty and free of leading and trailing whitespace, exactly one
\* condition under NINGUNO and at least two under Y or O; the only failure
\* is EmptyLiteral, and a text that is blank or opens with a delimiter (as
\* " y " alone does) fails with it.
C7_AntecedentWellFormed ==
    AntReturned =>
        /\ pc = "ret_true" =>
              /\ Len(antecedente.condiciones) >= 1
              /\ \A k \in 1 .. Len(antecedente.condiciones) :
                     Trimmed(antecedente.condiciones[k].nombre)
              /\ antecedente.operador = "NINGUNO"
                     => Len(antecedente.condiciones) = 1
              /\ antecedente.operador \in {"Y", "O"}
                     => Len(antecedente.condiciones) >= 2
        /\ pc = "ret_false" => cerr = << "EmptyLiteral" >>
        /\ (SinEspacios(alfaStr) = ""
            \/ 0 \in Ocurrencias(alfaStr, " y ")
            \/ 0 \in Ocurrencias(alfaStr, " o ")) => pc = "ret_false"

\* C7's case: a successful parse of a text with two delimiters.
C7_Witness ==
    /\ AntReturned
    /\ pc = "ret_true"
    /\ antecedente.operador = "Y"
    /\ Len(antecedente.condiciones) = 3

\* C10: the operator is the one of the first delimiter of the text (Y when
\* the first " y " comes before any " o ", else O when " o " occurs, else
\* NINGUNO); on success no name holds the chosen delimiter, the names joined
\* by it are the text up to whitespace and the case of the delimiter, so
\* they come in text order, and the other delimiter stays inside a name:
\* "a y b o a" gives Y with "a", "b o a", and "a o b" gives O with "a", "b".
C10_FirstDelimiterSplits ==
    AntReturned =>
        /\ antecedente.operador = OperadorPrimero(alfaStr)
        /\ pc = "ret_true" =>
              /\ antecedente.operador # "NINGUNO" =>
                    \A k \in 1 .. Len(antecedente.condiciones) :
                        Ocurrencias(antecedente.condiciones[k].nombre,
                                    Delimitador(antecedente.operador)) = {}
              /\ SinEspacios(toLower(Unir(Nombres(antecedente),
                                          Delimitador(antecedente.operador),
                                          1)))
                    = SinEspacios(toLower(alfaStr))
        /\ alfaStr = "a y b o a" =>
              /\ pc = "ret_true"
              /\ antecedente.operador = "Y"
              /\ Nombres(antecedente) = << "a", "b o a" >>
        /\ alfaStr = "a o b y a" =>
              /\ pc = "ret_true"
              /\ antecedente.operador = "O"
              /\ Nombres(antecedente) = << "a", "b y a" >>
        /\ alfaStr = "a o b" =>
              /\ pc = "ret_true"
              /\ antecedente.operador = "O"
              /\ Nombres(antecedente) = << "a", "b" >>

\* C10's case: both delimiters in one text, " y " first.
C10_Witness ==
    /\ AntReturned
    /\ alfaStr = "a y b o a"
    /\ Nombres(antecedente) = << "a", "b o a" >>

\* ------------------------------------------------------------------------
\* Properties of cargarReglas and cargarHechos (SpecLoad)
\* ------------------------------------------------------------------------

EnReglas == fn = "cargarReglas"

EnHechos == fn = "cargarHechos"

\* The entries the loader has loaded.
Cargadas == IF EnReglas THEN Len(bc.reglas) ELSE Len(bh.hechos_iniciales)

\* Number of non-blank lines among lines[2 .. k].
RECURSIVE NoBlancas(_, _)
NoBlancas(lines, k) ==
    IF k < 2 THEN 0
    ELSE NoBlancas(lines, k - 1) + (IF SinEspacios(lines[k]) # "" THEN 1 ELSE 0)

\* The index of the line that ends the for loop when n entries are declared:
\* the n-th non-blank line after line k (k itself when n <= 0), or the last
\* line delivered when there are fewer.
RECURSIVE FinBucle(_, _, _)
FinBucle(lines, n, k) ==
    IF n <= 0 \/ k >= Len(lines) THEN k
    ELSE FinBucle(lines, IF SinEspacios(lines[k + 1]) # "" THEN n - 1 ELSE n,
                  k + 1)

\* The last line delivered was read by the for loop.
UltimaEnBucle ==
    /\ Len(archivo) >= 2
    /\ FinBucle(archivo, numEsperadas, 1) = Len(archivo)

\* prev with the Regla of a line whose parse gave res, when it passed.
ConRegla(prev, res) == IF res.st = "ok" THEN Append(prev, res.r) ELSE prev

\* The rules that the lines lines[2 .. k] which pass every check give.
RECURSIVE ReglasDe(_, _)
ReglasDe(lines, k) ==
    IF k < 2 THEN <<>>
    ELSE IF SinEspacios(lines[k]) = "" THEN ReglasDe(lines, k - 1)
    ELSE ConRegla(ReglasDe(lines, k - 1), ParseRegla(trim(lines[k])))

\* prev with the Hecho of a line whose parse gave res, when it passed.
ConHecho(prev, res) == IF res.st = "ok" THEN Append(prev, res.h) ELSE prev

\* The facts that the lines lines[2 .. k] which pass every check give.
RECURSIVE HechosDe(_, _)
HechosDe(lines, k) ==
    IF k < 2 THEN <<>>
    ELSE IF SinEspacios(lines[k]) = "" THEN HechosDe(lines, k - 1)
    ELSE ConHecho(HechosDe(lines, k - 1), ParseHecho(trim(lines[k])))

NombresDe(hechos) == {hechos[k].nombre : k \in 1 .. Len(hechos)}

\* A rule line that lacks the 'Entonces' marker and nothing else.
LineasSinEntonces == {"R5: Si h4 h1, FC=1"}

\* C3: a line that fails validation adds nothing.  The rules held are, at
\* every moment, those of the delivered lines that pass every check, in
\* order, and the facts held (and the names of the working memory) those of
\* the lines the loop read that pass every check; a rule line without
\* 'Entonces' ends the load with MissingKeyword and the rules of the lines
\* before it; a fact line without a comma ends the load with
\* MissingDelimiter and the facts and working memory of the lines before it.
C3_FailedLineAddsNothing ==
    /\ EnReglas => bc.reglas = ReglasDe(archivo, Len(archivo))
    /\ EnHechos =>
          /\ bh.hechos_iniciales
                = HechosDe(archivo, FinBucle(archivo, numEsperadas, 1))
          /\ DOMAIN bh.fc_memoria = NombresDe(bh.hechos_iniciales)
    /\ (EnReglas /\ UltimaEnBucle /\ Last(archivo) \in LineasSinEntonces) =>
          /\ pc = "ret_false"
          /\ Last(cerr) = "MissingKeyword"
          /\ bc.reglas = ReglasDe(archivo, Len(archivo) - 1)
    /\ (EnHechos /\ UltimaEnBucle /\ SinEspacios(Last(archivo)) # ""
        /\ OcurrenciasEn(Last(archivo), ",") = {}) =>
          /\ pc = "ret_false"
          /\ Last(cerr) = "MissingDelimiter"
          /\ bh.hechos_iniciales = HechosDe(archivo, Len(archivo) - 1)
          /\ DOMAIN bh.fc_memoria
                = NombresDe(HechosDe(archivo, Len(archivo) - 1))

\* C3's case: a rule line without 'Entonces' has failed after a rule was
\* loaded, and that rule is still there.
C3_Witness ==
    /\ EnReglas
    /\ pc = "ret_false"
    /\ Len(archivo) >= 3
    /\ Last(archivo) \in LineasSinEntonces
    /\ Len(bc.reglas) >= 1

\* The index of the last fact of hechos with the given name.
UltimoCon(hechos, nombre) ==
    CHOOSE k \in 1 .. Len(hechos) :
        /\ hechos[k].nombre = nombre
        /\ \A j \in (k + 1) .. Len(hechos) : hechos[j].nombre # nombre

\* C4: while cargarHechos runs and after it, hechos_iniciales holds the facts
\* of the fact lines read, in file order, duplicates included; the keys of
\* fc_memoria are the names in hechos_iniciales; and fc_memoria[name] is the
\* certainty of the last fact of that name.
C4_WorkingMemoryLastWins ==
    EnHechos =>
        /\ bh.hechos_iniciales
              = HechosDe(archivo, FinBucle(archivo, numEsperadas, 1))
        /\ Len(bh.hechos_iniciales) = i
        /\ DOMAIN bh.fc_memoria = NombresDe(bh.hechos_iniciales)
        /\ \A n \in DOMAIN bh.fc_memoria :
              bh.fc_memoria[n]
                 = bh.hechos_iniciales[UltimoCon(bh.hechos_iniciales, n)]
                      .factorCerteza

\* C4's case: a name loaded twice with two certainties.
C4_Witness ==
    /\ EnHechos
    /\ pc = "ret_true"
    /\ Len(bh.hechos_iniciales) = 2
    /\ bh.hechos_iniciales[1].nombre = bh.hechos_iniciales[2].nombre
    /\ bh.hechos_iniciales[1].factorCerteza
          # bh.hechos_iniciales[2].factorCerteza
    /\ bh.fc_memoria[bh.hechos_iniciales[2].nombre]
          = bh.hechos_iniciales[2].factorCerteza

\* The non-blank lines of lines[k .. Len(lines)], trimmed independently of
\* trim: what is left of each is compared without its whitespace.
RECURSIVE NoBlancasDesde(_, _)
NoBlancasDesde(lines, k) ==
    IF k > Len(lines) THEN <<>>
    ELSE IF SinEspacios(lines[k]) = "" THEN NoBlancasDesde(lines, k + 1)
    ELSE << lines[k] >> \o NoBlancasDesde(lines, k + 1)

\* The non-blank lines delivered after the lines of the for loop.
TrasBucle == NoBlancasDesde(archivo, FinBucle(archivo, numEsperadas, 1) + 1)

\* The count line has been delivered and std::stoi has converted it.
CuentaLeida == Len(archivo) >= 1 /\ stoi(trim(archivo[1])).kind = "ok"

\* cargarHechos is past its for loop.
PasadoBucle == EnHechos /\ CuentaLeida /\ ~(i < numEsperadas)

\* C5: cargarHechos returns success only with exactly two non-blank lines
\* after its fact lines, the first equal to "objetivo" when case-folded and
\* the second, trimmed, the goal's name, which is not empty; after the fact
\* lines a first non-blank line that is not the keyword fails with
\* MissingKeyword, and the end of the input before the keyword or before a
\* goal line fails.
C5_GoalAfterKeyword ==
    PasadoBucle =>
        /\ pc = "ret_true" =>
              /\ Len(TrasBucle) = 2
              /\ SinEspacios(toLower(TrasBucle[1])) = "objetivo"
              /\ Trimmed(bh.objetivo.nombre)
              /\ SinEspacios(bh.objetivo.nombre) = SinEspacios(TrasBucle[2])
        /\ (Len(TrasBucle) >= 1
            /\ SinEspacios(toLower(TrasBucle[1])) # "objetivo") =>
              /\ pc = "ret_false"
              /\ Last(cerr) = "MissingKeyword"
              /\ Len(TrasBucle) = 1
        /\ (eof /\ Len(TrasBucle) < 2) =>
              /\ pc = "ret_false"
              /\ Last(cerr) = "UnexpectedEOF"
        /\ pc # "ret_true" => bh.objetivo.nombre = ""

\* C5's case: a successful load whose keyword line is not in the case of
\* "Objetivo" and is preceded by a blank line.
C5_Witness ==
    /\ PasadoBucle
    /\ pc = "ret_true"
    /\ Len(bh.hechos_iniciales) >= 1
    /\ TrasBucle = << " OBJETIVO ", "h1" >>
    /\ NoBlancas(archivo, Len(archivo)) < Len(archivo) - 1
    /\ bh.objetivo.nombre = "h1"

\* C6: in both loaders the loop index is the number of non-blank lines the
\* loop has accepted, so blank lines do not count; the end of the input
\* before the declared number of lines fails with UnexpectedEOF; and a
\* successful load of a positive declared count holds that many entries.
C6_BlankLinesAndEOF ==
    (EnReglas \/ EnHechos) =>
        /\ pc \in {"loop", "objetivo", "ret_true"} =>
              /\ i = NoBlancas(archivo, FinBucle(archivo, numEsperadas, 1))
              /\ i = Cargadas
        /\ (eof /\ pc # "count" /\ i < numEsperadas) =>
              /\ pc = "ret_false"
              /\ Last(cerr) = "UnexpectedEOF"
        /\ (pc = "ret_true" /\ numEsperadas > 0) => Cargadas = numEsperadas

\* C6's case: a successful load of two rules with a blank line between them.
C6_Witness ==
    /\ EnReglas
    /\ pc = "ret_true"
    /\ numEsperadas = 2
    /\ Len(archivo) = 4
    /\ SinEspacios(archivo[3]) = ""
    /\ Len(bc.reglas) = 2

\* ------------------------------------------------------------------------
\* Statements the code does not meet
\* ------------------------------------------------------------------------

\* The lines main writes into Prueba-1.reglas and Prueba-1.hechos that the
\* model's inputs hold: they conform to the grammars, with whitespace
\* around the '=' of the certainty suffix.
SampleLines == {"R1: Si h2 o h3 Entonces h1, FC = 0.5", "h2, FC = 0.3"}

\* The for loop has ended the load on the last line delivered.
FalloEnLinea ==
    /\ (EnReglas \/ EnHechos)
    /\ pc = "ret_false"
    /\ ~eof
    /\ i < numEsperadas
    /\ Len(archivo) >= 2

\* C1: a line that conforms to the grammar, such as the sample lines with
\* "FC = " that the program writes for itself, is accepted by its loader:
\* the for loop never ends the load on such a line.
C1_SampleLinesAccepted == ~(FalloEnLinea /\ Last(archivo) \in SampleLines)

\* C2: with a declared count smaller than the number of lines supplied the
\* load is accepted with a CountMismatch diagnostic: cargarReglas returning
\* success with lines of the file still unread has reported CountMismatch,
\* and cargarHechos does not end in failure on a well-formed fact line that
\* follows the declared ones.
C2_UndercountAccepted ==
    /\ (EnReglas /\ pc = "ret_true" /\ numEsperadas >= 0
        /\ Len(archivo) < totalLineas) =>
          \E k \in 1 .. Len(cerr) : cerr[k] = "CountMismatch"
    /\ ~(/\ PasadoBucle
         /\ numEsperadas >= 0
         /\ pc = "ret_false"
         /\ ~eof
         /\ Len(TrasBucle) = 1
         /\ ParseHecho(trim(TrasBucle[1])).st = "ok")

\* C8: every rule of a successful cargarReglas has a non-empty id and a
\* non-empty consequent name.
C8_RulesHaveIdAndConsequent ==
    (EnReglas /\ pc = "ret_true") =>
        \A k \in 1 .. Len(bc.reglas) :
            /\ bc.reglas[k].id # ""
            /\ bc.reglas[k].consecuente.nombre # ""

\* str is a decimal numeral, an optional sign and digits only, of an int.
NumeralEntero(str) ==
    LET p == IF Len(str) > 0 /\ Ch(str, 0) \in {"+", "-"} THEN 1 ELSE 0
    IN  /\ Len(str) > p
        /\ DigitRun(str, p) = Len(str) - p
        /\ stoi(str).kind = "ok"

\* C9: a count line that is not a valid integer (no numeral, a numeral
\* followed by other text, a numeral too large for an int) makes the loader
\* return failure with InvalidCount, nothing read after it and nothing
\* loaded.
C9_InvalidCountFails ==
    ((EnReglas \/ EnHechos) /\ Len(archivo) >= 1
     /\ ~NumeralEntero(trim(archivo[1]))) =>
        /\ pc = "ret_false"
        /\ cerr = << "InvalidCount" >>
        /\ Len(archivo) = 1
        /\ Cargadas = 0

====
